---- MODULE Spec2Model ----
(***************************************************************************)
(* Model of the "Explicit Lobatto Sequence" integrator of HydPy:           *)
(* hydpy/core/modeltools.py, classes NumConstsELS, NumVarsELS, ELSModel.   *)
(*                                                                         *)
(* Numbers.  The program computes with floats; the model computes on a     *)
(* fixed-point grid.  Times (t0, t1, dt, dt_est, reldtmin) are multiples   *)
(* of 1/TimeUnit, coefficients of the tableau are multiples of 1/CoefUnit, *)
(* and values of states and fluxes (and errors, abserrormax) are multiples *)
(* of 1/One with One = TimeUnit * CoefUnit, so that dt * a * rate is exact *)
(* for rates that are multiples of 1.0.  Division rounds to the grid.      *)
(* Of the times on the grid, those with at most MantissaBits binary digits *)
(* are floats, and the sums and differences of times are rounded to them:  *)
(* a step below the spacing of the floats at t0 leaves t0 as it is.        *)
(*                                                                         *)
(* The model owns one state sequence (s) and one numeric flux sequence (q) *)
(* like the test models used by the doctests of ELSModel.solve.            *)
(*                                                                         *)
(* Specifications.  Spec: one call of solve; FairSpec: the same, run to    *)
(* its end, also with a minimum step below the float spacing; SpecConfig:  *)
(* nmb_methods reassigned before the call; SpecCalls: up to ten methods;   *)
(* SpecRuns: a series of calls with the tolerance changed in between;      *)
(* SpecSeries: a series of calls without a reset of nmb_calls in between;  *)
(* SpecShrink: dt_decrease set to 2, so that rejected steps follow each    *)
(* other; SpecPair: two instances, their calls of solve interleaved;       *)
(* SpecDirect: the helpers called one by one, as in their doctests.        *)
(***************************************************************************)
EXTENDS Integers, Sequences, FiniteSets, TLC

\* ---------------------------------------------------------------- bounds
TimeUnit == 10
CoefUnit == 24
MaxMethods == 3
FloatMax == 1000000
MaxCalls == 60
MantissaBits == 3
MaxAttemptsCounted == 3
MaxRuns == 2
MaxSum == 2400
MaxDirectCalls == 3
MaxIdx == 2

One == TimeUnit * CoefUnit

\* ------------------------------------------------------ program constants
NMB_METHODS == 10
NMB_STAGES == 11
DT_INCREASE == 2
DT_DECREASE == 10

\* -999.9, the value extrapolate_error assigns for idx_method <= 2
NoExtrapolation == -((9999 * One) \div 10)
\* 999999., the value solve assigns to last_error at the start of an attempt
LastErrorStart == 999999 * One

\* The Runge Kutta coefficients (numconsts.a_coefs, shape (11, 12, 11)) in
\* units of 1/CoefUnit: row [m-1][st] holds the integrals from 0 to node st
\* of the (m+1)-point Lobatto rule of the Lagrange polynomials through the
\* nodes of the m-point rule; [1][1] is the documented row 0.375, 0.125.
ACoefRows ==
  <<
     << <<24>> >>,
     << <<9, 3>>,
        <<12, 12>> >>,
     << <<4, 3, -1>>,
        <<5, 13, 0>>,
        <<4, 16, 4>> >>,
     << <<2, 2, -1, 0>>,
        <<2, 9, 1, 0>>,
        <<2, 11, 8, 0>>,
        <<2, 10, 10, 2>> >>,
     << <<2, 2, 0, 0, 0>>,
        <<1, 6, 1, 0, 0>>,
        <<1, 7, 7, 0, 0>>,
        <<1, 6, 9, 5, 0>>,
        <<1, 7, 9, 7, 1>> >>,
     << <<1, 1, 0, 0, 0, 0>>,
        <<1, 5, 1, 0, 0, 0>>,
        <<1, 5, 6, 0, 0, 0>>,
        <<1, 4, 7, 6, 0, 0>>,
        <<1, 5, 7, 7, 3, 0>>,
        <<1, 5, 7, 7, 5, 1>> >>,
     << <<1, 1, 0, 0, 0, 0, 0>>,
        <<0, 4, 1, 0, 0, 0, 0>>,
        <<1, 3, 5, 1, 0, 0, 0>>,
        <<1, 3, 5, 5, 0, 0, 0>>,
        <<1, 3, 5, 6, 4, 0, 0>>,
        <<1, 3, 5, 6, 5, 2, 0>>,
        <<1, 3, 5, 6, 5, 3, 1>> >>,
     << <<1, 1, 0, 0, 0, 0, 0, 0>>,
        <<0, 3, 1, 0, 0, 0, 0, 0>>,
        <<0, 2, 4, 1, 0, 0, 0, 0>>,
        <<0, 3, 4, 5, 0, 0, 0, 0>>,
        <<0, 3, 4, 5, 4, 0, 0, 0>>,
        <<0, 2, 4, 5, 5, 3, 0, 0>>,
        <<0, 3, 4, 5, 5, 4, 2, 0>>,
        <<0, 3, 4, 5, 5, 4, 3, 0>> >>,
     << <<0, 1, 0, 0, 0, 0, 0, 0, 0>>,
        <<0, 2, 1, 0, 0, 0, 0, 0, 0>>,
        <<0, 2, 3, 1, 0, 0, 0, 0, 0>>,
        <<0, 2, 3, 4, 0, 0, 0, 0, 0>>,
        <<0, 2, 3, 4, 4, 0, 0, 0, 0>>,
        <<0, 2, 3, 4, 5, 3, 0, 0, 0>>,
        <<0, 2, 3, 4, 4, 4, 2, 0, 0>>,
        <<0, 2, 3, 4, 5, 4, 3, 1, 0>>,
        <<0, 2, 3, 4, 4, 4, 3, 2, 0>> >>,
     << <<0, 1, 0, 0, 0, 0, 0, 0, 0, 0>>,
        <<0, 2, 1, 0, 0, 0, 0, 0, 0, 0>>,
        <<0, 2, 3, 1, 0, 0, 0, 0, 0, 0>>,
        <<0, 2, 3, 3, 1, 0, 0, 0, 0, 0>>,
        <<0, 2, 3, 4, 4, 0, 0, 0, 0, 0>>,
        <<0, 2, 3, 3, 4, 3, 0, 0, 0, 0>>,
        <<0, 2, 3, 4, 4, 4, 3, 0, 0, 0>>,
        <<0, 2, 3, 3, 4, 4, 4, 2, 0, 0>>,
        <<0, 2, 3, 4, 4, 4, 3, 3, 1, 0>>,
        <<0, 2, 3, 4, 4, 4, 4, 3, 2, 0>> >>,
     << <<0, 0, 0, 0, 0, 0, 0, 0, 0, 0, 0>>,
        <<0, 1, 1, 0, 0, 0, 0, 0, 0, 0, 0>>,
        <<0, 1, 2, 1, 0, 0, 0, 0, 0, 0, 0>>,
        <<0, 1, 2, 3, 1, 0, 0, 0, 0, 0, 0>>,
        <<0, 1, 2, 3, 3, 0, 0, 0, 0, 0, 0>>,
        <<0, 1, 2, 3, 4, 3, 0, 0, 0, 0, 0>>,
        <<0, 1, 2, 3, 3, 4, 3, 0, 0, 0, 0>>,
        <<0, 1, 2, 3, 4, 4, 4, 2, 0, 0, 0>>,
        <<0, 1, 2, 3, 3, 4, 3, 3, 2, 0, 0>>,
        <<0, 1, 2, 3, 3, 4, 3, 3, 2, 1, 0>>,
        <<0, 1, 2, 3, 3, 4, 3, 3, 2, 1, 0>> >>
  >>

LoadedCoefs ==
  [mi \in 0..(NMB_STAGES-1) |->
    [st \in 0..NMB_STAGES |->
      [i \in 0..(NMB_STAGES-1) |->
        IF mi+1 <= Len(ACoefRows) /\ st >= 1 /\ st <= mi+1 /\ i <= mi
        THEN ACoefRows[mi+1][st][i+1] ELSE 0]]]

\* ------------------------------------------------------------------ state
VARIABLES
  pc,                 \* position of the caller / of solve
  nmb_methods, nmb_stages, dt_increase, dt_decrease,       \* numconsts
  a_coefs,                                                 \* numconsts
  abserrormax, reldtmin,                                   \* parameters.solver
  nmb_calls, t0, t1, dt_est, dt, idx_method, idx_stage,    \* numvars
  error, last_error, extrapolated_error, f0_ready,         \* numvars
  it_method, it_stage,   \* next value of the two range() iterators of solve
  s_old, s_new, s_points, s_results,                       \* state sequence s
  q, q_points, q_results, q_sum,                           \* flux sequence q
  rhs,                \* which right-hand side the model type registers
  prev,               \* what the previous call of solve was given and left
  other,              \* the second model instance, while the first one runs
  turn,               \* which of the two instances the variables above hold
  solo,               \* what solve left when the instance ran on its own
  overlap,            \* history: both instances were inside solve at a switch
  idx_sim,            \* Model.idx_sim
  called,             \* history: the last two methods the caller called itself
  h_before,           \* history: what the instance held before the last of them
  invoked,            \* history: what the last of them did, in order
  outcome,            \* history: how the last attempt ended
  acc,                \* history: sum of the flux values at the acceptances
  h_orders,           \* history: orders evaluated in the current attempt
  h_t0,               \* history: t0 at the start of the current attempt
  h_f0,               \* history: f0_ready at the start of the current attempt
  h_calls,            \* history: nmb_calls at the start of the current attempt
  h_attempts,         \* history: attempts started in this solve (saturating)
  h_calls0,           \* history: nmb_calls at the start of this solve
  h_evals,            \* history: <<order, stage>> of the calls of stage loop A
                      \* in the current attempt
  h_start,            \* history: s_old, q_sum and entry 0 of the points
                      \* buffers at the start of the current attempt
  h_zero,             \* history: stage-0 evaluations since the last acceptance
  h_addups,           \* history: calls of addup_fluxes in this solve
  h_advances,         \* history: assignments to t0 in the loop of this solve
  h_new2olds,         \* history: calls of new2old in this solve
  h_single            \* history: calls of calculate_single_terms since the
                      \* caller last assigned nmb_calls

numconsts == <<nmb_methods, nmb_stages, dt_increase, dt_decrease, a_coefs>>
solver == <<abserrormax, reldtmin>>
numvars == <<nmb_calls, t0, t1, dt_est, dt, idx_method, idx_stage,
             error, last_error, extrapolated_error, f0_ready>>
iters == <<it_method, it_stage>>
states == <<s_old, s_new, s_points, s_results>>
fluxes == <<q, q_points, q_results, q_sum>>
counts == <<h_zero, h_addups, h_advances, h_new2olds, h_single>>
hist == <<outcome, acc, h_orders, h_t0, h_f0, h_calls, h_attempts, h_calls0,
          h_evals, h_start, counts>>
pair == <<other, turn, solo, overlap>>
direct == <<idx_sim, called, h_before, invoked>>
env == <<rhs, prev, pair, direct>>
vars == <<pc, numconsts, solver, numvars, iters, states, fluxes, env, hist>>

\* ------------------------------------------------------- float outcomes
\* extrapolated_error is the only variable that can become inf or nan
Num(v) == [kind |-> "num", val |-> v]
PosInf == [kind |-> "inf", val |-> 0]
NaN == [kind |-> "nan", val |-> 0]

\* x > a for a float x that may be inf or nan (a comparison with nan is False)
GreaterThan(x, a) == x.kind = "inf" \/ (x.kind = "num" /\ x.val > a)

Abs(x) == IF x < 0 THEN -x ELSE x
Max(a, b) == IF a >= b THEN a ELSE b
Min(a, b) == IF a <= b THEN a ELSE b

\* a / b on the time grid (a >= 0, b > 0)
Quotient(a, b) == a \div b

\* The times t0, t1, dt and dt_est are floats: of the grid values, those are
\* floats that need no more than MantissaBits binary digits.  Spacing is the
\* distance of the floats around x >= 0.
RECURSIVE Spacing(_, _)
Spacing(x, s) == IF x < (2 ^ MantissaBits) * s THEN s ELSE Spacing(x, 2 * s)

\* the float nearest to x >= 0, of two equally near ones that with the even
\* mantissa (the rounding of every float operation)
Round(x) ==
  LET s == Spacing(x, 1)
      lo == (x \div s) * s
  IN IF 2 * (x - lo) < s THEN lo
     ELSE IF 2 * (x - lo) > s THEN lo + s
     ELSE IF (x \div s) % 2 = 0 THEN lo ELSE lo + s

\* a + b and a - b of floats
FloatAdd(a, b) == Round(a + b)
FloatSub(a, b) == Round(a - b)

\* ------------------------------------------------------------- helpers
\* numpy.dot(coefs[:n], points[:n])
RECURSIVE Dot(_, _, _)
Dot(coefs, points, n) ==
  IF n = 0 THEN 0 ELSE Dot(coefs, points, n-1) + coefs[n-1] * points[n-1]

\* faulty variant: the slices end one entry too early
IntegrateFluxesDropsLast(points, m, st, step) ==
  (step * Dot(a_coefs[m-1][st], points, m-1)) \div One

\* integrate_fluxes: the value assigned to the flux
IntegrateFluxes(points, m, st, step) ==
  (step * Dot(a_coefs[m-1][st], points, m)) \div One

\* faulty variant: the coefficients of the stage are scaled by dt in place
CoefsScaledInPlace(coefs, m, st, step) ==
  [coefs EXCEPT ![m-1][st] = [i \in DOMAIN @ |-> (step * @[i]) \div TimeUnit]]

\* integrate_fluxes, lines 1461-1465: a_coefs after the slice has been read
CoefsAfterIntegration(coefs, m, st, step) == coefs

\* Calc_S of the test models (FULL_ODE_METHODS): s.new = s.old - q
CalcFullTerms(old, flux) == old - flux

\* faulty variant: error is not reset before the maximum is taken
CalculateErrorKeepsLarger(results, m) ==
  Max(error, Abs(results[m] - results[m-1]))

\* calculate_error: the value assigned to error
CalculateError(results, m) == Max(0, Abs(results[m] - results[m-1]))

\* e * (e/le)^k for e > 0, le > 0, k >= 0, saturating to inf
RECURSIVE PowerRatio(_, _, _)
PowerRatio(e, le, k) ==
  IF k = 0 THEN Num(e)
  ELSE LET x == PowerRatio(e, le, k-1)
       IN IF x.kind # "num" THEN x
          ELSE IF (x.val * e) \div le > FloatMax THEN PosInf
          ELSE Num((x.val * e) \div le)

\* faulty variant: the errors are extrapolated from the second method on
ExtrapolateErrorFromSecond(m, e, le, n) ==
  IF m > 1
  THEN LET k == n - m
       IN CASE e = 0 /\ le = 0 -> NaN
            [] e = 0 /\ le > 0 -> IF k = 0 THEN NaN ELSE Num(0)
            [] e > 0 /\ le = 0 -> IF k = 0 THEN NaN ELSE PosInf
            [] OTHER -> PowerRatio(e, le, k)
  ELSE Num(NoExtrapolation)

\* extrapolate_error: the value assigned to extrapolated_error;
\* log(0.) is -inf, and inf - inf and 0 * inf are nan
ExtrapolateError(m, e, le, n) ==
  IF m > 2
  THEN LET k == n - m
       IN CASE e = 0 /\ le = 0 -> NaN
            [] e = 0 /\ le > 0 -> IF k = 0 THEN NaN ELSE Num(0)
            [] e > 0 /\ le = 0 -> IF k = 0 THEN NaN ELSE PosInf
            [] OTHER -> PowerRatio(e, le, k)
  ELSE Num(NoExtrapolation)

\* faulty variant: the sum of the earlier call is kept
ResetSumFluxesKeeps(sum) == sum

\* reset_sum_fluxes: the value assigned to the sum
ResetSumFluxes(sum) == 0

\* faulty variant: the sum is overwritten
AddupFluxesOverwrites(sum, flux) == flux

\* addup_fluxes: the value assigned to the sum
AddupFluxes(sum, flux) == sum + flux

\* faulty variant: the sum is added to the flux
GetSumFluxesAdds(sum) == q + sum

\* get_sum_fluxes: the value assigned to the flux
GetSumFluxes(sum) == sum

\* faulty variant: the minimum step is taken whatever the estimate
StepSizeIgnoresEstimate(from, to, est, rmin) == Min(FloatSub(to, from), rmin)

\* faulty variant: the step is not cut at the end of the interval
StepSizeUnclipped(from, to, est, rmin) == Max(est, rmin)

\* the step size of an attempt, lines 1232-1234
StepSize(from, to, est, rmin) == Min(FloatSub(to, from), Max(est, rmin))

\* faulty variant: the step size estimate grows by more than the factor
IncreasedStepTooFar(step, factor) == Round(factor * step) + 1

\* the step size estimate after an acceptance by the tolerance test
IncreasedStep(step, factor) == Round(factor * step)

\* faulty variant: the step size estimate is left at the rejected step size
DecreasedStepKeeps(step, factor) == step

\* faulty variant: the step size estimate shrinks by the factor twice
DecreasedStepTwice(step, factor) == Quotient(Quotient(step, factor), factor)

\* the step size estimate after a rejection
DecreasedStep(step, factor) == Quotient(step, factor)

\* faulty variant: the tolerance test is applied to the first method, too
DecisionTestsFirst(m, e, xe, tol, step, rmin) ==
  IF e <= tol THEN "accept"
  ELSE IF m = 1 THEN "continue"
  ELSE IF GreaterThan(xe, tol) /\ step > rmin THEN "reject"
  ELSE "next"

\* faulty variant: a method is accepted when its error is not below the
\* tolerance
DecisionAcceptsAbove(m, e, xe, tol, step, rmin) ==
  IF m = 1 THEN "continue"
  ELSE IF e >= tol THEN "accept"
  ELSE IF GreaterThan(xe, tol) /\ step > rmin THEN "reject"
  ELSE "next"

\* lines 1258-1276: what solve does with the result of method m
Decision(m, e, xe, tol, step, rmin) ==
  IF m = 1 THEN "continue"
  ELSE IF e <= tol THEN "accept"
  ELSE IF GreaterThan(xe, tol) /\ step > rmin THEN "reject"
  ELSE "next"

\* faulty variant: the entries below idx are overwritten as well
SetEntryAndBelow(buffer, idx, v) ==
  [i \in DOMAIN buffer |-> IF i <= idx THEN v ELSE buffer[i]]

\* _set_states and _set_fluxes, lines 1378-1383 and 1431-1436: temp[idx] = v
SetEntry(buffer, idx, v) == [buffer EXCEPT ![idx] = v]

\* faulty variant: stage 0 is evaluated anew at every attempt
NeedsStageZeroAlways(ready) == TRUE

\* line 1235: if not self.numvars.f0_ready
NeedsStageZero(ready) == ~ready

\* faulty variant: last_error keeps its value
LastErrorKept(e, le) == le

\* line 1275: self.numvars.last_error = self.numvars.error
LastErrorAfter(e, le) == e

\* faulty variant: solve starts its own count
CallsAtEntryReset(n) == 0

\* lines 1226-1229: solve assigns t0, t1, dt_est and f0_ready and resets the
\* sums, and leaves nmb_calls as it finds it
CallsAtEntry(n) == n

\* set_point_states and set_point_fluxes, lines 1358 and 1413: the entry of
\* the points buffers that is written
PointsIndex(st, m) == st

\* faulty variant: the results are stored under the index of the stage
ResultsIndexByStage(st, m) == st

\* set_result_states and set_result_fluxes, lines 1374 and 1429: the entry of
\* the results buffers that is written
ResultsIndex(st, m) == m

\* line 1278
AcceptAnyway(step, rmin) == step <= rmin

\* faulty variant: the for loop goes on after the acceptance
AfterAcceptanceNoBreak == "for"

\* the break of line 1267 and the end of the else branch, line 1282: the next
\* statement is the test of the while loop
AfterAcceptance == "while"

\* faulty variant: solve catches the exception and retries
AfterRaiseRetry == "while"

\* faulty variant: the first stage loop runs for stage idx_method - 1 only
InStageLoopANewOnly(st, m) == st = m - 1

\* faulty variant: the first stage loop includes stage idx_method
InStageLoopAInclusive(st, m) == st <= m

\* the range of the first stage loop, lines 1244-1245: range(1, idx_method)
InStageLoopA(st, m) == st < m

\* calculate_single_terms, line 1300: nmb_calls += 1; the model counts up to
\* MaxCalls, where MaxCalls stands for MaxCalls or more
Counted(n) == Min(n + 1, MaxCalls)

\* faulty variant: the state is committed although the step was rejected
AfterRejectionCommits == "new2old"

\* the break of line 1275 and the end of the else branch, line 1286: the next
\* statement is the test of the while loop
AfterRejection == "while"

\* faulty variant: the acceptance begins with the assignment to t0
FirstOfAcceptanceSkipsAddup == "advance"

\* lines 1264 and 1280: after f0_ready = False the acceptance calls
\* addup_fluxes
FirstOfAcceptance == "addup"

\* history counters count up to MaxCalls, which stands for MaxCalls or more
Tally(n) == Min(n + 1, MaxCalls)

\* solve catches nothing: an exception of a callable ends it
AfterRaise == "raised"

\* ------------------------------------------------- configurations of Init
RateVals == {0, One}
AbsErrorMaxVals == {-1, 0, One \div 4}
RelDTMinVals == {(2 * TimeUnit) \div 5, TimeUnit}
SumVals == {0, One}

\* what the PART_ODE_METHODS can assign to the flux when the state is s:
\* nothing but zero, k*s with k = 1 (the doctest of lines 1292-1298), or any
\* rate
RhsValues(s) ==
  CASE rhs = "zero" -> {0}
    [] rhs = "linear" -> {s}
    [] OTHER -> RateVals

\* there is no second instance (yet)
NoInstance == [pc |-> "none"]

\* solve has not run on its own (yet)
NoResult == <<>>

\* no call of solve has returned yet
NoRun == [runs |-> 0, abserrormax |-> 0, nmb_calls |-> 0, idx_method |-> 0,
          attempts |-> 0]

\* what an attempt is to leave alone unless it is accepted
Kept == [s_old |-> s_old, q_sum |-> q_sum, q_point |-> q_points[0],
         s_point |-> s_points[0]]

ZeroBuffer == [i \in 0..(NMB_STAGES-1) |-> 0]

InitCommon ==
  /\ pc = "idle"
  /\ nmb_stages = NMB_STAGES
  /\ a_coefs = LoadedCoefs
  /\ dt_increase = DT_INCREASE
  /\ dt_decrease = DT_DECREASE
  /\ nmb_calls = 0 /\ t0 = 0 /\ t1 = 0
  /\ dt_est = TimeUnit /\ dt = TimeUnit
  /\ idx_method = 0 /\ idx_stage = 0
  /\ error = 0 /\ last_error = 0 /\ extrapolated_error = Num(0)
  /\ f0_ready = FALSE
  /\ it_method = 1 /\ it_stage = 1
  /\ s_old = One /\ s_new = One
  /\ s_points = ZeroBuffer /\ s_results = ZeroBuffer
  /\ q_points = ZeroBuffer /\ q_results = ZeroBuffer
  /\ q \in SumVals /\ q_sum \in SumVals
  /\ outcome = "none" /\ acc = 0
  /\ h_orders = {} /\ h_t0 = 0 /\ h_f0 = FALSE
  /\ h_calls = 0 /\ h_attempts = 0 /\ h_calls0 = 0 /\ h_evals = {}
  /\ h_zero = 0 /\ h_addups = 0 /\ h_advances = 0 /\ h_new2olds = 0
  /\ h_single = 0
  /\ h_start = Kept
  /\ prev = NoRun
  /\ other = NoInstance /\ turn = "A" /\ solo = NoResult /\ overlap = FALSE
  /\ idx_sim = 0 /\ called = <<>> /\ h_before = NoResult /\ invoked = <<>>

Init ==
  /\ InitCommon
  /\ nmb_methods \in 0..MaxMethods
  /\ abserrormax \in AbsErrorMaxVals
  /\ reldtmin \in RelDTMinVals
  /\ rhs \in {"zero", "any"}

\* ------------------------------------------------------------- actions
\* solve, lines 1226-1229
solve_enter ==
  /\ pc = "idle"
  /\ t0' = 0 /\ t1' = TimeUnit
  /\ dt_est' = TimeUnit
  /\ f0_ready' = FALSE
  /\ q_sum' = ResetSumFluxes(q_sum)
  /\ pc' = "while"
  /\ outcome' = "none" /\ acc' = 0 /\ h_attempts' = 0 /\ h_calls0' = nmb_calls
  /\ h_evals' = {}
  /\ h_zero' = 0 /\ h_addups' = 0 /\ h_advances' = 0 /\ h_new2olds' = 0
  /\ nmb_calls' = CallsAtEntry(nmb_calls)
  /\ UNCHANGED <<numconsts, solver, dt, idx_method, idx_stage,
                 error, last_error, extrapolated_error, iters, states,
                 q, q_points, q_results, env, h_orders, h_t0, h_f0, h_calls,
                 h_start, h_single>>

\* the test of the while loop, line 1230; 1e-14 is below the grid unit, so
\* t0 < t1 - 1e-14 is t0 < t1 on the grid
while_test ==
  /\ pc = "while"
  /\ pc' = IF t0 < t1 THEN "attempt" ELSE "get_sum"
  /\ UNCHANGED <<numconsts, solver, numvars, iters, states, fluxes, env, hist>>

\* lines 1231-1235
attempt_start ==
  /\ pc = "attempt"
  /\ last_error' = LastErrorStart
  /\ dt' = StepSize(t0, t1, dt_est, reldtmin)
  /\ IF NeedsStageZero(f0_ready)
     THEN pc' = "stage0" /\ it_method' = it_method
     ELSE pc' = "for" /\ it_method' = 1
  /\ h_orders' = {} /\ h_t0' = t0 /\ h_f0' = f0_ready /\ h_calls' = nmb_calls
  /\ h_attempts' = Min(h_attempts + 1, MaxAttemptsCounted)
  /\ h_evals' = {}
  /\ h_start' = Kept
  /\ UNCHANGED <<numconsts, solver, nmb_calls, t0, t1, dt_est, idx_method,
                 idx_stage, error, extrapolated_error, f0_ready, it_stage,
                 states, fluxes, env, outcome, acc, h_calls0, counts>>

\* a PART_ODE_METHODS or FULL_ODE_METHODS callable raises (lines 1301-1302,
\* 1318-1319); calculate_single_terms has counted the call before
rhs_raises(counted) ==
  /\ pc' = AfterRaise
  /\ nmb_calls' = IF counted THEN Counted(nmb_calls) ELSE nmb_calls
  /\ outcome' = "raised"
  /\ h_single' = IF counted THEN Tally(h_single) ELSE h_single
  /\ UNCHANGED <<acc, h_orders, h_t0, h_f0, h_calls, h_attempts, h_calls0,
                 h_evals, h_start, h_zero, h_addups, h_advances, h_new2olds>>

\* lines 1236-1241
stage_zero ==
  /\ pc = "stage0"
  /\ \/ \E r \in RhsValues(s_new) :
          /\ nmb_calls' = Counted(nmb_calls)
          /\ q' = r
          /\ idx_method' = 0 /\ idx_stage' = 0
          /\ q_points' = SetEntry(q_points, PointsIndex(0, 0), r)
          /\ s_points' = SetEntry(s_points, PointsIndex(0, 0), s_new)
          /\ s_results' = SetEntry(s_results, ResultsIndex(0, 0), s_new)
          /\ pc' = "for" /\ it_method' = 1
          /\ h_zero' = Min(h_zero + 1, MaxAttemptsCounted)
          /\ h_single' = Tally(h_single)
          /\ UNCHANGED <<s_old, s_new, outcome, acc, h_orders, h_t0, h_f0,
                         h_calls, h_attempts, h_calls0, h_evals, h_start, h_addups,
                         h_advances, h_new2olds>>
     \/ /\ rhs_raises(TRUE)
        /\ UNCHANGED <<q, idx_method, idx_stage, q_points, states, it_method>>
  /\ UNCHANGED <<numconsts, solver, t0, t1, dt_est, dt, error, last_error,
                 extrapolated_error, f0_ready, it_stage, q_results, q_sum,
                 env>>

\* the for loop over the methods, lines 1242-1243, and its else, line 1277
for_method ==
  /\ pc = "for"
  /\ IF it_method <= nmb_methods
     THEN /\ idx_method' = it_method
          /\ it_method' = it_method + 1
          /\ it_stage' = 1
          /\ pc' = "stage_a"
     ELSE /\ pc' = "else"
          /\ UNCHANGED <<idx_method, iters>>
  /\ UNCHANGED <<numconsts, solver, nmb_calls, t0, t1, dt_est, dt, idx_stage,
                 error, last_error, extrapolated_error, f0_ready,
                 states, fluxes, env, hist>>

\* the first stage loop, lines 1244-1248
stage_a ==
  /\ pc = "stage_a"
  /\ IF InStageLoopA(it_stage, idx_method)
     THEN /\ idx_stage' = it_stage
          /\ it_stage' = it_stage + 1
          /\ s_new' = s_points[it_stage]
          /\ \/ \E r \in RhsValues(s_new') :
                  /\ nmb_calls' = Counted(nmb_calls)
                  /\ q' = r
                  /\ q_points' =
                       SetEntry(q_points, PointsIndex(it_stage, idx_method), r)
                  /\ pc' = "stage_a"
                  /\ h_evals' = h_evals \cup {<<idx_method, it_stage>>}
                  /\ h_single' = Tally(h_single)
                  /\ UNCHANGED <<outcome, acc, h_orders, h_t0, h_f0, h_calls,
                                 h_attempts, h_calls0, h_start, h_zero,
                                 h_addups,
                                 h_advances, h_new2olds>>
             \/ /\ rhs_raises(TRUE)
                /\ UNCHANGED <<q, q_points>>
     ELSE /\ it_stage' = 1
          /\ pc' = "stage_b"
          /\ UNCHANGED <<idx_stage, s_new, nmb_calls, q, q_points, hist>>
  /\ UNCHANGED <<numconsts, solver, t0, t1, dt_est, dt, idx_method, error,
                 last_error, extrapolated_error, f0_ready, it_method,
                 s_old, s_points, s_results, q_results, q_sum, env>>

\* the second stage loop, lines 1249-1253
stage_b ==
  /\ pc = "stage_b"
  /\ IF it_stage <= idx_method
     THEN /\ idx_stage' = it_stage
          /\ it_stage' = it_stage + 1
          /\ q' = IntegrateFluxes(q_points, idx_method, it_stage, dt)
          /\ a_coefs' = CoefsAfterIntegration(a_coefs, idx_method, it_stage, dt)
          /\ \/ /\ s_new' = CalcFullTerms(s_old, q')
                /\ s_points' =
                     SetEntry(s_points, PointsIndex(it_stage, idx_method),
                              s_new')
                /\ pc' = "stage_b"
                /\ UNCHANGED <<nmb_calls, hist>>
             \/ /\ rhs_raises(FALSE)
                /\ UNCHANGED <<s_new, s_points>>
     ELSE /\ pc' = "results"
          /\ UNCHANGED <<idx_stage, it_stage, q, s_new, s_points, nmb_calls,
                         a_coefs, hist>>
  /\ UNCHANGED <<nmb_methods, nmb_stages, dt_increase, dt_decrease, solver,
                 t0, t1, dt_est, dt, idx_method, error,
                 last_error, extrapolated_error, f0_ready, it_method,
                 s_old, s_results, q_points, q_results, q_sum, env>>

\* lines 1254-1257
finish_method ==
  /\ pc = "results"
  /\ q_results' =
       SetEntry(q_results, ResultsIndex(idx_stage, idx_method), q)
  /\ s_results' =
       SetEntry(s_results, ResultsIndex(idx_stage, idx_method), s_new)
  /\ error' = CalculateError(q_results', idx_method)
  /\ extrapolated_error' =
       ExtrapolateError(idx_method, error', last_error, nmb_methods)
  /\ pc' = "decide"
  /\ h_orders' = h_orders \cup {idx_method}
  /\ UNCHANGED <<numconsts, solver, nmb_calls, t0, t1, dt_est, dt, idx_method,
                 idx_stage, last_error, f0_ready, iters, s_old, s_new,
                 s_points, q, q_points, q_sum, env, outcome, acc, h_t0, h_f0,
                 h_calls, h_attempts, h_calls0,
                 h_evals, h_start, counts>>

\* lines 1258-1276, up to the first two statements of the branch taken
decide ==
  /\ pc = "decide"
  /\ LET d == Decision(idx_method, error, extrapolated_error, abserrormax,
                       dt, reldtmin)
     IN CASE d = "continue" ->
               /\ pc' = "for"
               /\ UNCHANGED <<dt_est, f0_ready, last_error, outcome, acc>>
          [] d = "accept" ->
               /\ dt_est' = IncreasedStep(dt, dt_increase)
               /\ f0_ready' = FALSE
               /\ pc' = FirstOfAcceptance
               /\ outcome' = "accepted_tol" /\ acc' = acc + q
               /\ UNCHANGED last_error
          [] d = "reject" ->
               /\ f0_ready' = TRUE
               /\ dt_est' = DecreasedStep(dt, dt_decrease)
               /\ pc' = AfterRejection
               /\ outcome' = "rejected_early"
               /\ UNCHANGED <<last_error, acc>>
          [] d = "next" ->
               /\ last_error' = LastErrorAfter(error, last_error)
               /\ f0_ready' = TRUE
               /\ pc' = "for"
               /\ UNCHANGED <<dt_est, outcome, acc>>
  /\ UNCHANGED <<numconsts, solver, nmb_calls, t0, t1, dt, idx_method,
                 idx_stage, error, extrapolated_error, iters, states,
                 fluxes, env, h_orders, h_t0, h_f0, h_calls, h_attempts,
                 h_calls0,
                 h_evals, h_start, counts>>

\* the else branch of the for loop, lines 1277-1286
for_else ==
  /\ pc = "else"
  /\ IF AcceptAnyway(dt, reldtmin)
     THEN /\ f0_ready' = FALSE
          /\ pc' = FirstOfAcceptance
          /\ outcome' = "accepted_min" /\ acc' = acc + q
          /\ UNCHANGED dt_est
     ELSE /\ f0_ready' = TRUE
          /\ dt_est' = DecreasedStep(dt, dt_decrease)
          /\ pc' = AfterRejection
          /\ outcome' = "rejected_all"
          /\ UNCHANGED acc
  /\ UNCHANGED <<numconsts, solver, nmb_calls, t0, t1, dt, idx_method,
                 idx_stage, error, last_error, extrapolated_error, iters,
                 states, fluxes, env, h_orders, h_t0, h_f0, h_calls,
                 h_attempts, h_calls0,
                 h_evals, h_start, counts>>

\* addup_fluxes, lines 1264 and 1280
addup_fluxes ==
  /\ pc = "addup"
  /\ q_sum' = AddupFluxes(q_sum, q)
  /\ pc' = "advance"
  /\ h_addups' = Tally(h_addups)
  /\ UNCHANGED <<numconsts, solver, numvars, iters, states, q, q_points,
                 q_results, env, outcome, acc, h_orders, h_t0, h_f0, h_calls,
                 h_attempts, h_calls0, h_evals, h_start, h_zero, h_advances,
                 h_new2olds, h_single>>

\* lines 1265 and 1281
advance ==
  /\ pc = "advance"
  /\ t0' = FloatAdd(t0, dt)
  /\ pc' = "new2old"
  /\ h_advances' = Tally(h_advances)
  /\ UNCHANGED <<numconsts, solver, nmb_calls, t1, dt_est, dt, idx_method,
                 idx_stage, error, last_error, extrapolated_error, f0_ready,
                 iters, states, fluxes, env, outcome, acc, h_orders, h_t0,
                 h_f0, h_calls, h_attempts, h_calls0, h_evals, h_start, h_zero,
                 h_addups, h_new2olds, h_single>>

\* new2old, lines 1266 and 1282, and the break
new2old ==
  /\ pc = "new2old"
  /\ s_old' = s_new
  /\ pc' = AfterAcceptance
  /\ h_new2olds' = Tally(h_new2olds)
  /\ h_zero' = 0
  /\ UNCHANGED <<numconsts, solver, numvars, iters, s_new, s_points,
                 s_results, fluxes, env, outcome, acc, h_orders, h_t0, h_f0,
                 h_calls, h_attempts, h_calls0, h_evals, h_start, h_addups,
                 h_advances, h_single>>

\* get_sum_fluxes, line 1287, and the return of solve
get_sum_fluxes ==
  /\ pc = "get_sum"
  /\ q' = GetSumFluxes(q_sum)
  /\ pc' = "returned"
  /\ UNCHANGED <<numconsts, solver, numvars, iters, states, q_points,
                 q_results, q_sum, env, hist>>

\* the steps of one call of solve
SolveStep ==
  \/ while_test
  \/ attempt_start
  \/ stage_zero
  \/ for_method
  \/ stage_a
  \/ stage_b
  \/ finish_method
  \/ decide
  \/ for_else
  \/ addup_fluxes
  \/ advance
  \/ new2old
  \/ get_sum_fluxes

Next == solve_enter \/ SolveStep

Spec == Init /\ [][Next]_vars

\* a minimum step of one grid unit, below the spacing of the floats near t1,
\* with a right-hand side that keeps the model finite
InitSmallStep ==
  /\ InitCommon
  /\ nmb_methods \in 0..MaxMethods
  /\ abserrormax \in AbsErrorMaxVals
  /\ reldtmin = 1
  /\ rhs = "zero"

\* solve runs to its end once called: a sequential program takes its next step
FairSpec == (Init \/ InitSmallStep) /\ [][Next]_vars /\ WF_vars(SolveStep)

\* model.numconsts.nmb_methods = v (as in line 1155): a plain attribute of
\* NumConstsELS (lines 841-848), assigned unchecked
set_nmb_methods ==
  /\ pc = "idle"
  /\ \E v \in 0..NMB_STAGES : nmb_methods' = v
  /\ UNCHANGED <<pc, nmb_stages, dt_increase, dt_decrease, a_coefs, solver,
                 numvars,
                 iters, states, fluxes, env, hist>>

\* the model as constructed (nmb_methods = 10, line 848) and then configured;
\* with a zero right-hand side and abserrormax >= 0 no order above 2 is used
InitConfig ==
  /\ InitCommon
  /\ nmb_methods = NMB_METHODS
  /\ abserrormax \in {a \in AbsErrorMaxVals : a >= 0}
  /\ reldtmin \in RelDTMinVals
  /\ rhs = "zero"

NextConfig == set_nmb_methods \/ Next

SpecConfig == InitConfig /\ [][NextConfig]_vars

\* the orders above MaxMethods up to the default, at the largest minimum step
\* (every attempt is then the only one of its call of solve)
InitDeep ==
  /\ InitCommon
  /\ q = 0 /\ q_sum = 0
  /\ nmb_methods \in (MaxMethods + 1)..NMB_METHODS
  /\ abserrormax \in AbsErrorMaxVals
  /\ reldtmin = TimeUnit
  /\ rhs = "zero"

SpecCalls == (Init \/ InitDeep) /\ [][Next]_vars

\* the tolerances of the runs that are compared with each other
ToleranceVals == {0, (3 * One) \div 20, One \div 4, One}

\* the caller's lines between two calls of solve, as in lines 1020-1022:
\* solver.abserrormax = v; states.s(1.0); model.numvars.nmb_calls = 0
reconfigure ==
  /\ pc = "returned"
  /\ prev.runs + 1 < MaxRuns
  /\ prev' = [runs |-> prev.runs + 1, abserrormax |-> abserrormax,
              nmb_calls |-> nmb_calls, idx_method |-> idx_method,
              attempts |-> h_attempts]
  /\ \E v \in ToleranceVals : abserrormax' = v
  /\ s_old' = One /\ s_new' = One
  /\ nmb_calls' = 0
  /\ h_single' = 0
  /\ pc' = "idle"
  /\ UNCHANGED <<numconsts, reldtmin, t0, t1, dt_est, dt, idx_method,
                 idx_stage, error, last_error, extrapolated_error, f0_ready,
                 iters, s_points, s_results, fluxes, rhs, pair, direct,
                 outcome, acc, h_orders, h_t0, h_f0, h_calls, h_attempts,
                 h_calls0, h_evals, h_start, h_zero, h_addups, h_advances,
                 h_new2olds>>

\* the caller calls solve again without resetting the counter: states.s(1.0)
\* and model.solve() (lines 1021 and 1023 without line 1022)
resume ==
  /\ pc = "returned"
  /\ prev.runs + 1 < MaxRuns
  /\ prev' = [runs |-> prev.runs + 1, abserrormax |-> abserrormax,
              nmb_calls |-> nmb_calls, idx_method |-> idx_method,
              attempts |-> h_attempts]
  /\ s_old' = One /\ s_new' = One
  /\ pc' = "idle"
  /\ UNCHANGED <<numconsts, solver, numvars, iters, s_points, s_results,
                 fluxes, rhs, pair, direct, hist>>

\* runs on one right-hand side that is a function of the state
InitRuns ==
  /\ InitCommon
  /\ nmb_methods \in 0..MaxMethods
  /\ abserrormax \in ToleranceVals
  /\ reldtmin \in RelDTMinVals
  /\ rhs \in {"zero", "linear"}

NextRuns == reconfigure \/ Next

SpecRuns == InitRuns /\ [][NextRuns]_vars

NextSeries == resume \/ Next

SpecSeries == InitRuns /\ [][NextSeries]_vars

\* model.numconsts.dt_decrease = v: a plain attribute of NumConstsELS (line
\* 851), assigned before solve is called; with the factor 2 a rejected step
\* of 1.0 or 0.5 is still above the minimum step sizes of the model
DecreaseVals == {2}

set_dt_decrease ==
  /\ pc = "idle" /\ dt_decrease = DT_DECREASE
  /\ \E v \in DecreaseVals : dt_decrease' = v
  /\ UNCHANGED <<pc, nmb_methods, nmb_stages, dt_increase, a_coefs, solver,
                 numvars, iters, states, fluxes, env, hist>>

\* a tolerance below the value extrapolate_error assigns for idx_method <= 2
BelowNoExtrapolation == NoExtrapolation - One

\* a series of shrinking steps on right-hand sides that are functions of the
\* state
InitShrink ==
  /\ InitCommon
  /\ q = 0 /\ q_sum = 0
  /\ nmb_methods \in 0..MaxMethods
  /\ abserrormax \in ToleranceVals \cup {BelowNoExtrapolation}
  /\ reldtmin = (2 * TimeUnit) \div 5
  /\ rhs \in {"zero", "linear"}

NextShrink == set_dt_decrease \/ Next

SpecShrink == InitShrink /\ [][NextShrink]_vars

\* ---------------------------------------------------- two model instances
\* the attributes of the instance that is running now, as it leaves them when
\* the other instance takes over
Saved ==
  [pc |-> pc, nmb_methods |-> nmb_methods, nmb_stages |-> nmb_stages,
   dt_increase |-> dt_increase, dt_decrease |-> dt_decrease,
   a_coefs |-> a_coefs, abserrormax |-> abserrormax, reldtmin |-> reldtmin,
   nmb_calls |-> nmb_calls, t0 |-> t0, t1 |-> t1, dt_est |-> dt_est, dt |-> dt,
   idx_method |-> idx_method, idx_stage |-> idx_stage, error |-> error,
   last_error |-> last_error, extrapolated_error |-> extrapolated_error,
   f0_ready |-> f0_ready, it_method |-> it_method, it_stage |-> it_stage,
   s_old |-> s_old, s_new |-> s_new, s_points |-> s_points,
   s_results |-> s_results, q |-> q, q_points |-> q_points,
   q_results |-> q_results, q_sum |-> q_sum, rhs |-> rhs, outcome |-> outcome,
   acc |-> acc, h_orders |-> h_orders, h_t0 |-> h_t0, h_f0 |-> h_f0,
   h_calls |-> h_calls, h_attempts |-> h_attempts, h_calls0 |-> h_calls0,
   h_evals |-> h_evals, h_start |-> h_start, h_zero |-> h_zero, h_addups |-> h_addups,
   h_advances |-> h_advances, h_new2olds |-> h_new2olds,
   h_single |-> h_single]

\* ELSModel.__init__ (lines 927-930) followed by the configuration of the
\* doctest: an instance with its own numconsts, numvars and sequences
NewInstance(methods, tolerance, rmin, kind) ==
  [pc |-> "idle", nmb_methods |-> methods, nmb_stages |-> NMB_STAGES,
   dt_increase |-> DT_INCREASE, dt_decrease |-> DT_DECREASE,
   a_coefs |-> LoadedCoefs, abserrormax |-> tolerance, reldtmin |-> rmin,
   nmb_calls |-> 0, t0 |-> 0, t1 |-> 0, dt_est |-> TimeUnit, dt |-> TimeUnit,
   idx_method |-> 0, idx_stage |-> 0, error |-> 0, last_error |-> 0,
   extrapolated_error |-> Num(0), f0_ready |-> FALSE, it_method |-> 1,
   it_stage |-> 1, s_old |-> One, s_new |-> One, s_points |-> ZeroBuffer,
   s_results |-> ZeroBuffer, q |-> 0, q_points |-> ZeroBuffer,
   q_results |-> ZeroBuffer, q_sum |-> 0, rhs |-> kind, outcome |-> "none",
   acc |-> 0, h_orders |-> {}, h_t0 |-> 0, h_f0 |-> FALSE, h_calls |-> 0,
   h_attempts |-> 0, h_calls0 |-> 0, h_evals |-> {}, h_zero |-> 0,
   h_start |-> [s_old |-> One, q_sum |-> 0, q_point |-> 0, s_point |-> 0],
   h_addups |-> 0, h_advances |-> 0, h_new2olds |-> 0, h_single |-> 0]

\* faulty variant: numvars is one object of the class, so that the running
\* instance finds the counter as the other instance left it
RestoredShared(saved, current) == current

\* an attribute of self (self.numvars.nmb_calls) when the instance runs again:
\* what the instance itself stored there
Restored(saved, current) == saved

\* the variables of the running instance become those of instance
Load(instance) ==
  /\ pc' = instance.pc
  /\ nmb_methods' = instance.nmb_methods
  /\ nmb_stages' = instance.nmb_stages
  /\ dt_increase' = instance.dt_increase
  /\ dt_decrease' = instance.dt_decrease
  /\ a_coefs' = instance.a_coefs
  /\ abserrormax' = instance.abserrormax
  /\ reldtmin' = instance.reldtmin
  /\ nmb_calls' = Restored(instance.nmb_calls, nmb_calls)
  /\ t0' = instance.t0
  /\ t1' = instance.t1
  /\ dt_est' = instance.dt_est
  /\ dt' = instance.dt
  /\ idx_method' = instance.idx_method
  /\ idx_stage' = instance.idx_stage
  /\ error' = instance.error
  /\ last_error' = instance.last_error
  /\ extrapolated_error' = instance.extrapolated_error
  /\ f0_ready' = instance.f0_ready
  /\ it_method' = instance.it_method
  /\ it_stage' = instance.it_stage
  /\ s_old' = instance.s_old
  /\ s_new' = instance.s_new
  /\ s_points' = instance.s_points
  /\ s_results' = instance.s_results
  /\ q' = instance.q
  /\ q_points' = instance.q_points
  /\ q_results' = instance.q_results
  /\ q_sum' = instance.q_sum
  /\ rhs' = instance.rhs
  /\ outcome' = instance.outcome
  /\ acc' = instance.acc
  /\ h_orders' = instance.h_orders
  /\ h_t0' = instance.h_t0
  /\ h_f0' = instance.h_f0
  /\ h_calls' = instance.h_calls
  /\ h_attempts' = instance.h_attempts
  /\ h_calls0' = instance.h_calls0
  /\ h_evals' = instance.h_evals
  /\ h_start' = instance.h_start
  /\ h_zero' = instance.h_zero
  /\ h_addups' = instance.h_addups
  /\ h_advances' = instance.h_advances
  /\ h_new2olds' = instance.h_new2olds
  /\ h_single' = instance.h_single

\* what solve leaves behind: numvars, the states and the fluxes
Result == <<numvars, states, fluxes>>

Config == <<nmb_methods, abserrormax, reldtmin, rhs>>

InsideSolve(position) == position \notin {"idle", "returned", "raised"}

\* the instance has run on its own; the caller keeps what solve left, builds
\* the instance anew and builds a second one, either configured like the
\* first or with three methods, the linear right-hand side and the smaller
\* minimum step
second_instance ==
  /\ pc = "returned" /\ other = NoInstance /\ solo = NoResult
  /\ solo' = Result
  /\ Load(NewInstance(nmb_methods, abserrormax, reldtmin, rhs))
  /\ \E same \in BOOLEAN :
        other' = IF same
                 THEN NewInstance(nmb_methods, abserrormax, reldtmin, rhs)
                 ELSE NewInstance(MaxMethods, (3 * One) \div 20,
                                  (2 * TimeUnit) \div 5, "linear")
  /\ UNCHANGED <<prev, turn, overlap, direct>>

\* the scheduler lets the other instance take its next steps
switch ==
  /\ other # NoInstance
  /\ Load(other)
  /\ other' = Saved
  /\ turn' = IF turn = "A" THEN "B" ELSE "A"
  /\ overlap' = (overlap \/ (InsideSolve(pc) /\ InsideSolve(other.pc)))
  /\ UNCHANGED <<prev, solo, direct>>

InitPair ==
  /\ InitCommon
  /\ q = 0 /\ q_sum = 0
  /\ nmb_methods \in 0..MaxMethods
  /\ abserrormax = (3 * One) \div 20
  /\ reldtmin = (2 * TimeUnit) \div 5
  /\ rhs \in {"zero", "linear"}

NextPair == second_instance \/ switch \/ Next

SpecPair == InitPair /\ [][NextPair]_vars

\* ------------------------------------------- the helpers, called directly
\* the values the doctests of the helpers assign before the call
DirectFluxVals == {0, One \div 4, One, 5 * One}

\* the last two methods called, name being the latest
Latest(name) ==
  IF called = <<>> THEN <<name>> ELSE <<called[Len(called)], name>>

\* the bookkeeping of a direct call
Call(name) ==
  /\ called' = Latest(name)
  /\ h_before' = Result

\* fluxes.q = v; fluxes.fastaccess._q_sum = w (lines 1390-1391, 1473)
set_fluxes ==
  /\ pc = "idle"
  /\ pc' = "fluxes_set"
  /\ q' \in DirectFluxVals
  /\ q_sum' \in DirectFluxVals
  /\ UNCHANGED <<numconsts, solver, numvars, iters, states, q_points,
                 q_results, env, hist>>

\* model.reset_sum_fluxes(), lines 1467-1479
call_reset_sum_fluxes ==
  /\ pc = "fluxes_set"
  /\ Call("reset_sum_fluxes")
  /\ q_sum' = ResetSumFluxes(q_sum)
  /\ invoked' = <<>>
  /\ UNCHANGED <<pc, numconsts, solver, numvars, iters, states, q, q_points,
                 q_results, rhs, prev, pair, idx_sim, hist>>

\* model.get_sum_fluxes(), lines 1385-1398
call_get_sum_fluxes ==
  /\ pc = "fluxes_set"
  /\ Call("get_sum_fluxes")
  /\ q' = GetSumFluxes(q_sum)
  /\ invoked' = <<>>
  /\ UNCHANGED <<pc, numconsts, solver, numvars, iters, states, q_points,
                 q_results, q_sum, rhs, prev, pair, idx_sim, hist>>

\* model.addup_fluxes(), lines 1481-1495; the sum stays within FloatMax
call_addup_fluxes ==
  /\ pc = "fluxes_set"
  /\ AddupFluxes(q_sum, q) <= MaxSum
  /\ Call("addup_fluxes")
  /\ q_sum' = AddupFluxes(q_sum, q)
  /\ invoked' = <<>>
  /\ UNCHANGED <<pc, numconsts, solver, numvars, iters, states, q, q_points,
                 q_results, rhs, prev, pair, idx_sim, hist>>

\* the method groups of the model type (lines 64-67 and 918-919): two
\* callables each, as in the doctests of lines 413-424
INLET_METHODS == <<"inlet_1", "inlet_2">>
OUTLET_METHODS == <<"outlet_1", "outlet_2">>
RECEIVER_METHODS == <<"receiver_1", "receiver_2">>
SENDER_METHODS == <<"sender_1", "sender_2">>
PART_ODE_METHODS == <<"part_ode_1", "part_ode_2">>
FULL_ODE_METHODS == <<"full_ode_1", "full_ode_2">>

\* what a helper does, in order: it calls a method or assigns idx_sim
Invocation(method) == <<"call", method, 0>>
Assignment(idx) == <<"assign", "idx_sim", idx>>

\* faulty variant: the methods are called from the last to the first
RECURSIVE InvokeReversed(_, _)
InvokeReversed(methods, n) ==
  IF n = 0 THEN <<>>
  ELSE InvokeReversed(methods, n-1) \o <<Invocation(methods[Len(methods)+1-n])>>

\* for method in methods: method.__call__(self), up to and including the
\* n-th method
RECURSIVE InvokeAll(_, _)
InvokeAll(methods, n) ==
  IF n = 0 THEN <<>>
  ELSE InvokeAll(methods, n-1) \o <<Invocation(methods[n])>>

\* the loop over a method group: all methods return, or the n-th one raises
\* and ends the call
Loop(methods, before) ==
  \E n \in 1..(Len(methods) + 1) :
     IF n > Len(methods)
     THEN invoked' = before \o InvokeAll(methods, Len(methods)) /\ pc' = pc
     ELSE invoked' = before \o InvokeAll(methods, n) /\ pc' = "raised"

\* states.s.old = v; states.s.new = w; fluxes.q = x (lines 1310-1311)
set_states ==
  /\ pc = "idle"
  /\ pc' = "states_set"
  /\ s_old' = One
  /\ s_new' \in {One \div 4, One}
  /\ q' \in {0, One \div 4}
  /\ UNCHANGED <<numconsts, solver, numvars, iters, s_points, s_results,
                 q_points, q_results, q_sum, env, hist>>

\* model.calculate_single_terms(), lines 1289-1302
call_calculate_single_terms ==
  /\ pc = "states_set"
  /\ nmb_calls < MaxDirectCalls
  /\ Call("calculate_single_terms")
  /\ nmb_calls' = nmb_calls + 1
  /\ h_single' = h_single + 1
  /\ Loop(PART_ODE_METHODS, <<>>)
  /\ \/ pc' = pc /\ q' \in RhsValues(s_new)
     \/ pc' = "raised" /\ q' = q
  /\ UNCHANGED <<numconsts, solver, t0, t1, dt_est, dt, idx_method, idx_stage,
                 error, last_error, extrapolated_error, f0_ready, iters,
                 states, q_points, q_results, q_sum, rhs, prev, pair, idx_sim,
                 outcome, acc, h_orders, h_t0, h_f0, h_calls, h_attempts,
                 h_calls0, h_evals, h_start, h_zero, h_addups, h_advances,
                 h_new2olds>>

\* model.calculate_full_terms(), lines 1304-1319
call_calculate_full_terms ==
  /\ pc = "states_set"
  /\ Call("calculate_full_terms")
  /\ Loop(FULL_ODE_METHODS, <<>>)
  /\ \/ pc' = pc /\ s_new' = CalcFullTerms(s_old, q)
     \/ pc' = "raised" /\ s_new' = s_new
  /\ UNCHANGED <<numconsts, solver, numvars, iters, s_old, s_points,
                 s_results, fluxes, rhs, prev, pair, idx_sim, hist>>

\* model.update_inlets(), lines 410-432
call_update_inlets ==
  /\ pc = "states_set"
  /\ Call("update_inlets")
  /\ Loop(INLET_METHODS, <<>>)
  /\ UNCHANGED <<numconsts, solver, numvars, iters, states, fluxes, rhs, prev,
                 pair, idx_sim, hist>>

\* model.update_outlets(), lines 434-456
call_update_outlets ==
  /\ pc = "states_set"
  /\ Call("update_outlets")
  /\ Loop(OUTLET_METHODS, <<>>)
  /\ UNCHANGED <<numconsts, solver, numvars, iters, states, fluxes, rhs, prev,
                 pair, idx_sim, hist>>

\* model.update_receivers(idx), lines 458-482
call_update_receivers ==
  /\ pc = "states_set"
  /\ Call("update_receivers")
  /\ \E idx \in 0..MaxIdx :
        /\ idx_sim' = idx
        /\ Loop(RECEIVER_METHODS, <<Assignment(idx)>>)
  /\ UNCHANGED <<numconsts, solver, numvars, iters, states, fluxes, rhs, prev,
                 pair, hist>>

\* model.update_senders(idx), lines 484-508
call_update_senders ==
  /\ pc = "states_set"
  /\ Call("update_senders")
  /\ \E idx \in 0..MaxIdx :
        /\ idx_sim' = idx
        /\ Loop(SENDER_METHODS, <<Assignment(idx)>>)
  /\ UNCHANGED <<numconsts, solver, numvars, iters, states, fluxes, rhs, prev,
                 pair, hist>>

\* the errors the doctest of extrapolate_error assigns (0.1 and 1. keep its
\* ratio of 1e-2 to 1e-1), and those calculate_error can leave
DirectErrorVals == {0, One \div 10, One \div 4, One}

\* model.numvars.error = v; model.numvars.last_error = w;
\* model.numvars.idx_method = m (lines 1531-1533)
set_errors ==
  /\ pc = "idle"
  /\ pc' = "errors_set"
  /\ error' \in DirectErrorVals
  /\ last_error' \in DirectErrorVals
  /\ idx_method' \in 1..Max(1, nmb_methods)
  /\ UNCHANGED <<numconsts, solver, nmb_calls, t0, t1, dt_est, dt, idx_stage,
                 extrapolated_error, f0_ready, iters, states, fluxes, env,
                 hist>>

\* model.extrapolate_error(), lines 1521-1550
call_extrapolate_error ==
  /\ pc = "errors_set"
  /\ Call("extrapolate_error")
  /\ extrapolated_error' =
       ExtrapolateError(idx_method, error, last_error, nmb_methods)
  /\ invoked' = <<>>
  /\ UNCHANGED <<pc, numconsts, solver, nmb_calls, t0, t1, dt_est, dt,
                 idx_method, idx_stage, error, last_error, f0_ready, iters,
                 states, fluxes, rhs, prev, pair, idx_sim, hist>>

\* the values the doctest of calculate_error assigns to the results
DirectResultVals == {0, 3 * One, 4 * One}

\* model.numvars.idx_method = m; results[:4] = 0., a, b, 0. (lines 1504-1506),
\* after an earlier error
set_results ==
  /\ pc = "idle"
  /\ pc' = "results_set"
  /\ idx_method' \in 1..MaxIdx
  /\ \E a, b \in DirectResultVals :
        q_results' = [ZeroBuffer EXCEPT ![1] = a, ![2] = b]
  /\ error' \in {0, 5 * One}
  /\ last_error' = One
  /\ UNCHANGED <<numconsts, solver, nmb_calls, t0, t1, dt_est, dt, idx_stage,
                 extrapolated_error, f0_ready, iters, states, q, q_points,
                 q_sum, env, hist>>

\* model.calculate_error(), lines 1498-1519
call_calculate_error ==
  /\ pc = "results_set"
  /\ Call("calculate_error")
  /\ error' = CalculateError(q_results, idx_method)
  /\ invoked' = <<>>
  /\ UNCHANGED <<pc, numconsts, solver, nmb_calls, t0, t1, dt_est, dt,
                 idx_method, idx_stage, last_error, extrapolated_error,
                 f0_ready, iters, states, fluxes, rhs, prev, pair, idx_sim,
                 hist>>

\* model.numvars.idx_method = m; model.numvars.idx_stage = st;
\* model.numvars.dt = 0.5; points[:4] = 15., 2., -999., 0. (lines 1445-1449),
\* and variations of these values
set_points ==
  /\ pc = "idle"
  /\ pc' = "points_set"
  /\ \E m \in 1..MaxMethods : \E st \in 1..m :
        idx_method' = m /\ idx_stage' = st
  /\ dt' \in {TimeUnit \div 2, TimeUnit}
  /\ \E p0 \in {15 * One, One}, p1 \in {2 * One, 0},
        p2 \in {-999 * One, One}, p3 \in {0, 7 * One} :
        q_points' = [ZeroBuffer EXCEPT ![0] = p0, ![1] = p1, ![2] = p2,
                                       ![3] = p3]
  /\ UNCHANGED <<numconsts, solver, nmb_calls, t0, t1, dt_est, error,
                 last_error, extrapolated_error, f0_ready, iters, states, q,
                 q_results, q_sum, env, hist>>

\* model.integrate_fluxes(), lines 1438-1465
call_integrate_fluxes ==
  /\ pc = "points_set"
  /\ Call("integrate_fluxes")
  /\ q' = IntegrateFluxes(q_points, idx_method, idx_stage, dt)
  /\ a_coefs' = CoefsAfterIntegration(a_coefs, idx_method, idx_stage, dt)
  /\ invoked' = <<>>
  /\ UNCHANGED <<pc, nmb_methods, nmb_stages, dt_increase, dt_decrease, solver,
                 numvars, iters, states, q_points, q_results, q_sum, rhs, prev,
                 pair, idx_sim, hist>>

\* what the buffers hold before the call: zeros, as in the doctests, or
\* values of earlier calls
FilledBuffer == [i \in 0..(NMB_STAGES-1) |-> 7 * One]

\* states.s.old = 2.0; states.s.new = 1.0; fluxes.q = 1.;
\* model.numvars.idx_stage = st; model.numvars.idx_method = m;
\* points[:] = 0.; results[:] = 0. (lines 1350-1354, 1366-1370, 1405-1408,
\* 1421-1424)
set_buffers ==
  /\ pc = "idle"
  /\ pc' = "buffers_set"
  /\ s_old' = 2 * One /\ s_new' = One /\ q' = One
  /\ idx_stage' \in 0..MaxIdx
  /\ idx_method' \in 0..MaxIdx
  /\ \E buffer \in {ZeroBuffer, FilledBuffer} :
        /\ s_points' = buffer /\ s_results' = buffer
        /\ q_points' = buffer /\ q_results' = buffer
  /\ UNCHANGED <<numconsts, solver, nmb_calls, t0, t1, dt_est, dt, error,
                 last_error, extrapolated_error, f0_ready, iters, q_sum, env,
                 hist>>

\* model.set_point_states(), lines 1345-1358
call_set_point_states ==
  /\ pc = "buffers_set"
  /\ Call("set_point_states")
  /\ s_points' = SetEntry(s_points, PointsIndex(idx_stage, idx_method), s_new)
  /\ invoked' = <<>>
  /\ UNCHANGED <<pc, numconsts, solver, numvars, iters, s_old, s_new,
                 s_results, fluxes, rhs, prev, pair, idx_sim, hist>>

\* model.set_result_states(), lines 1360-1374
call_set_result_states ==
  /\ pc = "buffers_set"
  /\ Call("set_result_states")
  /\ s_results' =
       SetEntry(s_results, ResultsIndex(idx_stage, idx_method), s_new)
  /\ invoked' = <<>>
  /\ UNCHANGED <<pc, numconsts, solver, numvars, iters, s_old, s_new,
                 s_points, fluxes, rhs, prev, pair, idx_sim, hist>>

\* model.set_point_fluxes(), lines 1400-1413
call_set_point_fluxes ==
  /\ pc = "buffers_set"
  /\ Call("set_point_fluxes")
  /\ q_points' = SetEntry(q_points, PointsIndex(idx_stage, idx_method), q)
  /\ invoked' = <<>>
  /\ UNCHANGED <<pc, numconsts, solver, numvars, iters, states, q, q_results,
                 q_sum, rhs, prev, pair, idx_sim, hist>>

\* model.set_result_fluxes(), lines 1415-1429
call_set_result_fluxes ==
  /\ pc = "buffers_set"
  /\ Call("set_result_fluxes")
  /\ q_results' = SetEntry(q_results, ResultsIndex(idx_stage, idx_method), q)
  /\ invoked' = <<>>
  /\ UNCHANGED <<pc, numconsts, solver, numvars, iters, states, q, q_points,
                 q_sum, rhs, prev, pair, idx_sim, hist>>

NextDirect ==
  \/ set_buffers
  \/ call_set_point_states
  \/ call_set_result_states
  \/ call_set_point_fluxes
  \/ call_set_result_fluxes
  \/ set_points
  \/ call_integrate_fluxes
  \/ set_results
  \/ call_calculate_error
  \/ set_fluxes
  \/ set_errors
  \/ call_extrapolate_error
  \/ set_states
  \/ call_calculate_single_terms
  \/ call_calculate_full_terms
  \/ call_update_inlets
  \/ call_update_outlets
  \/ call_update_receivers
  \/ call_update_senders
  \/ call_reset_sum_fluxes
  \/ call_get_sum_fluxes
  \/ call_addup_fluxes

\* the model as constructed (nmb_methods = 10, line 848) or with MaxMethods
\* methods
InitDirect ==
  /\ InitCommon
  /\ q = 0 /\ q_sum = 0
  /\ nmb_methods \in {MaxMethods, NMB_METHODS}
  /\ abserrormax = 0
  /\ reldtmin = TimeUnit
  /\ rhs \in {"zero", "linear"}

SpecDirect == InitDirect /\ [][NextDirect]_vars

\* ------------------------------------------------------------- claims
Accepting == pc \in {"addup", "advance", "new2old"}
JustAccepted == pc = "while" /\ outcome \in {"accepted_tol", "accepted_min"}
Rejections == {"rejected_early", "rejected_all"}
JustRejected == pc = "while" /\ outcome \in Rejections

\* C1 as stated: once solve has been entered with reldtmin > 0 it ends:
\* either a callable raised, or the loop was left with t0 >= t1 and
\* get_sum_fluxes ran
C1_Terminates ==
  (pc = "while" /\ reldtmin > 0) ~>
    (pc = "raised" \/ (pc = "returned" /\ t0 >= t1))

\* C2: a sub-interval is accepted only with idx_method >= 2 and
\* error <= abserrormax, or after all orders 1..nmb_methods were evaluated
\* at the current dt (the for loop ran out) and dt <= reldtmin
C2_AcceptedOnlyWhen ==
  Accepting =>
    \/ idx_method >= 2 /\ error <= abserrormax /\ outcome = "accepted_tol"
    \/ /\ h_orders = 1..nmb_methods
       /\ it_method = nmb_methods + 1
       /\ dt <= reldtmin
       /\ outcome = "accepted_min"

C2_Witness ==
  pc = "new2old" /\ outcome = "accepted_tol" /\ idx_method = 3 /\ h_attempts >= 2

\* C3: when the for loop runs out at dt <= reldtmin, nothing is raised: all
\* orders were tried, the next step is the acceptance, what addup_fluxes adds
\* and new2old commits are the flux and the state of the highest order, and
\* t0 advances by dt before the while loop goes on
HighestFlux == IF nmb_methods = 0 THEN q_points[0] ELSE q_results[nmb_methods]

C3_FallbackAccepts ==
  /\ [](pc = "else" /\ dt <= reldtmin => h_orders = 1..nmb_methods)
  /\ [][pc = "else" /\ dt <= reldtmin =>
          pc' = "addup" /\ outcome' = "accepted_min"]_vars
  /\ [](Accepting /\ outcome = "accepted_min" =>
          q = HighestFlux /\ s_new = s_results[nmb_methods])
  /\ [][pc = "addup" /\ outcome = "accepted_min" => q_sum' = q_sum + HighestFlux]_vars
  /\ [](JustAccepted /\ outcome = "accepted_min" =>
          t0 = FloatAdd(h_t0, dt) /\ s_old = s_results[nmb_methods])

C3_Witness ==
  JustAccepted /\ outcome = "accepted_min" /\ nmb_methods = 3 /\ t0 < t1

\* C4: when solve returns, the flux is the sum of the flux values current at
\* the acceptances of this call, whatever the sum buffer held before
C4_FluxIsSumOfAccepted == pc = "returned" => q = acc

C4_Witness == pc = "returned" /\ q > 0 /\ h_attempts >= 3

\* C5 as stated: with a zero right-hand side and abserrormax >= 0 solve
\* leaves the state alone, the flux at zero, makes two calls and ends with
\* idx_method = 2 and dt = 1
C5_ZeroRate ==
  pc = "returned" /\ rhs = "zero" /\ abserrormax >= 0 =>
    /\ s_old = One /\ s_new = One /\ q = 0
    /\ nmb_calls = h_calls0 + 2
    /\ idx_method = 2 /\ dt = TimeUnit

\* C5 amended: the same, provided at least two methods are available
C5_ZeroRateTwoMethods ==
  pc = "returned" /\ rhs = "zero" /\ abserrormax >= 0 /\ nmb_methods >= 2 =>
    /\ s_old = One /\ s_new = One /\ q = 0
    /\ nmb_calls = h_calls0 + 2
    /\ idx_method = 2 /\ dt = TimeUnit

C5_Witness ==
  pc = "returned" /\ rhs = "zero" /\ abserrormax >= 0 /\ nmb_methods = 3

\* C6 as stated: directly after an acceptance dt_est <= dt_increase * dt
C6_EstimateBounded == JustAccepted => dt_est <= dt_increase * dt

\* C6 amended: after an acceptance by the tolerance test dt_est is
\* dt_increase * dt; after an acceptance at the minimum step dt_est keeps its
\* value, which is at most dt unless the sub-interval was cut at t1
C6_EstimateBoundedUnlessCut ==
  /\ (JustAccepted /\ outcome = "accepted_tol" => dt_est = dt_increase * dt)
  /\ (JustAccepted /\ outcome = "accepted_min" /\ t0 < t1 => dt_est <= dt)

C6_Witness == JustAccepted /\ outcome = "accepted_min" /\ t0 < t1 /\ dt_est > 0

\* C7: directly after a rejection dt_est >= dt / dt_decrease
C7_EstimateNotBelow == JustRejected => dt_est >= Quotient(dt, dt_decrease)

C7_Witness == JustRejected /\ outcome = "rejected_early" /\ dt < TimeUnit

\* C8: after a callable has raised, solve takes no further step
C8_RaisePropagates == [][outcome # "raised"]_vars

C8_Witness == pc = "raised" /\ outcome = "raised" /\ h_attempts >= 2 /\ t0 > 0

\* C9 as stated: solve is never entered with reldtmin <= 0 or with more
\* methods than the tableau and the stage buffers (nmb_stages - 1) support
C9_MisconfigurationRejected ==
  pc # "idle" => reldtmin > 0 /\ nmb_methods <= nmb_stages - 1

Triangle(m) == (m * (m - 1)) \div 2

AttemptEnded == pc = "addup" \/ JustRejected

\* C10: an attempt whose loop ran up to order m has made m(m-1)/2 calls in
\* the loop, plus one for stage 0 iff f0_ready was false at its start; a solve
\* whose first attempt is accepted at order m has made 1 + m(m-1)/2 calls,
\* 29 for m = 8 and 46 for the fallback with the default ten methods
C10_CallsPerAttempt ==
  /\ (AttemptEnded =>
        nmb_calls - h_calls = Triangle(idx_method) + (IF h_f0 THEN 0 ELSE 1))
  /\ (pc = "addup" /\ h_attempts = 1 =>
        nmb_calls - h_calls0 = 1 + Triangle(idx_method))
  /\ (pc = "addup" /\ h_attempts = 1 /\ idx_method = 8 =>
        nmb_calls - h_calls0 = 29)
  /\ (pc = "addup" /\ h_attempts = 1 /\ outcome = "accepted_min"
         /\ nmb_methods = NMB_METHODS => nmb_calls - h_calls0 = 46)

C10_Witness ==
  /\ pc = "addup" /\ h_attempts = 1 /\ outcome = "accepted_min"
  /\ nmb_methods = NMB_METHODS /\ nmb_calls = h_calls0 + 46
\* C11: of two runs of solve on the same right-hand side, initial state and
\* reldtmin, the one with the smaller abserrormax makes no fewer calls of
\* calculate_single_terms and selects no lower order
C11_StricterCostsMore ==
  (pc = "returned" /\ prev.runs > 0 /\ abserrormax < prev.abserrormax)
    => (nmb_calls >= prev.nmb_calls /\ idx_method >= prev.idx_method)

\* C11, amended: the run with the smaller abserrormax makes no fewer calls and
\* selects no lower order if its first attempted step is accepted, whichever
\* of the two runs comes first
C11_StricterSingleAttempt ==
  (pc = "returned" /\ prev.runs > 0)
    => /\ (abserrormax < prev.abserrormax /\ h_attempts = 1)
            => (nmb_calls >= prev.nmb_calls /\ idx_method >= prev.idx_method)
       /\ (abserrormax > prev.abserrormax /\ prev.attempts = 1)
            => (nmb_calls <= prev.nmb_calls /\ idx_method <= prev.idx_method)

C11_Witness ==
  /\ pc = "returned" /\ prev.runs > 0
  /\ abserrormax < prev.abserrormax /\ h_attempts = 1
  /\ idx_method > prev.idx_method /\ nmb_calls > prev.nmb_calls

\* the steps that evaluate one order: the head of the for loop, both stage
\* loops, the storing of the results and the tests
InOrderLoop == pc \in {"for", "stage_a", "stage_b", "results", "decide", "else"}

\* C12: within one attempt, evaluating order m writes only entry m of the
\* result buffers; the entries of the orders evaluated before in the same
\* attempt, and of stage 0, keep the values stored then
C12_ResultsFrame ==
  [][InOrderLoop =>
       \A j \in DOMAIN q_results :
          (j # idx_method \/ pc # "results")
             => /\ q_results'[j] = q_results[j]
                /\ s_results'[j] = s_results[j]]_vars

C12_Witness ==
  /\ pc = "decide" /\ idx_method = 3
  /\ h_orders = {1, 2, 3}
  /\ q_results[1] # q_results[2] /\ q_results[2] # q_results[3]
  /\ s_results[2] # s_results[3]

C14_NumConstsUnchanged ==
  [][/\ nmb_methods' = nmb_methods
     /\ nmb_stages' = nmb_stages
     /\ dt_increase' = dt_increase
     /\ dt_decrease' = dt_decrease
     /\ \A m \in DOMAIN a_coefs : \A st \in DOMAIN a_coefs[m] :
           a_coefs'[m][st] = a_coefs[m][st]]_vars

C14_Witness ==
  /\ pc = "returned" /\ prev.runs > 0 /\ prev.idx_method = 3
  /\ h_attempts >= 2 /\ nmb_methods = 3
  /\ nmb_stages = NMB_STAGES /\ a_coefs = LoadedCoefs

\* C15: reset_sum_fluxes followed at once by get_sum_fluxes leaves the flux
\* at zero whatever the sum and the flux held before, and a second
\* reset_sum_fluxes changes nothing the first one left
C15_ResetThenGet ==
  /\ called = <<"reset_sum_fluxes", "get_sum_fluxes">> => (q = 0 /\ q_sum = 0)
  /\ called = <<"reset_sum_fluxes", "reset_sum_fluxes">>
       => (q_sum = 0 /\ Result = h_before)

C15_Witness ==
  /\ called = <<"reset_sum_fluxes", "get_sum_fluxes">>
  /\ h_before[3][1] = 5 * One /\ q = 0

\* C16: extrapolate_error assigns -999.9 when idx_method <= 2 and
\* error * (error/last_error)^(nmb_methods - idx_method) above, which is error
\* itself when idx_method = nmb_methods
C16_ExtrapolationFormula ==
  (called # <<>> /\ called[Len(called)] = "extrapolate_error")
    => IF idx_method <= 2
       THEN extrapolated_error = Num(NoExtrapolation)
       ELSE /\ idx_method = nmb_methods => extrapolated_error = Num(error)
            /\ (idx_method < nmb_methods /\ last_error > 0)
                 => extrapolated_error =
                      PowerRatio(error, last_error, nmb_methods - idx_method)

\* the last method the caller called has returned
Returned(name) ==
  called # <<>> /\ called[Len(called)] = name /\ pc = "states_set"

\* the methods of a group, each called once, the first one first
InOrder(methods) == [i \in 1..Len(methods) |-> Invocation(methods[i])]

\* C17: calculate_single_terms adds exactly 1 to nmb_calls and calls every
\* PART_ODE_METHODS callable once in the order of the tuple;
\* calculate_full_terms does so with the FULL_ODE_METHODS and leaves nmb_calls
\* alone; update_inlets, update_outlets, update_receivers and update_senders
\* call their group in order, the latter two after assigning idx_sim
C17_MethodsInOrder ==
  /\ Returned("calculate_single_terms")
       => /\ nmb_calls = h_before[1][1] + 1
          /\ invoked = InOrder(PART_ODE_METHODS)
  /\ Returned("calculate_full_terms")
       => /\ nmb_calls = h_before[1][1]
          /\ invoked = InOrder(FULL_ODE_METHODS)
  /\ Returned("update_inlets") => invoked = InOrder(INLET_METHODS)
  /\ Returned("update_outlets") => invoked = InOrder(OUTLET_METHODS)
  /\ Returned("update_receivers")
       => invoked = <<Assignment(idx_sim)>> \o InOrder(RECEIVER_METHODS)
  /\ Returned("update_senders")
       => invoked = <<Assignment(idx_sim)>> \o InOrder(SENDER_METHODS)

C17_Witness ==
  /\ Returned("update_receivers")
  /\ called[1] = "calculate_single_terms"
  /\ nmb_calls = 2 /\ idx_sim = MaxIdx /\ Len(invoked) = 3

\* C18: when solve returns, the last attempt was an acceptance, dt is the
\* size of the sub-interval accepted last, and idx_method is the order that
\* was accepted: the highest one evaluated in that attempt, and nmb_methods
\* when the minimum step size forced the acceptance
C18_ReturnAfterAcceptance ==
  pc = "returned"
    => /\ outcome \in {"accepted_tol", "accepted_min"}
       /\ t0 = FloatAdd(h_t0, dt)
       /\ \A m \in h_orders : m <= idx_method
       /\ outcome = "accepted_tol"
            => (idx_method \in h_orders /\ error <= abserrormax)
       /\ outcome = "accepted_min"
            => (idx_method = nmb_methods /\ dt <= reldtmin)

C18_Witness ==
  /\ pc = "returned" /\ outcome = "accepted_min"
  /\ h_attempts >= 2 /\ h_t0 > 0 /\ dt < TimeUnit
  /\ idx_method = nmb_methods /\ nmb_methods = 3

\* C19: an attempt starts with dt = min(t1 - t0, max(dt_est, reldtmin)), which
\* for reldtmin > 0 is positive and at least min(t1 - t0, reldtmin); inside
\* solve and after it 0 <= t0 <= t1 = 1, and t0 never decreases
C19_StepWithinInterval ==
  [][/\ pc' \notin {"idle", "fluxes_set", "errors_set", "states_set"}
          => (0 <= t0' /\ t0' <= t1' /\ t1' = TimeUnit)
     /\ InsideSolve(pc) => t0' >= t0
     /\ pc = "attempt"
          => /\ dt' = Min(FloatSub(t1, t0), Max(dt_est, reldtmin))
             /\ reldtmin > 0
                  => (dt' > 0 /\ dt' >= Min(FloatSub(t1, t0), reldtmin))]_vars

C19_Witness ==
  /\ pc = "for" /\ h_t0 > 0 /\ t0 = h_t0
  /\ dt = t1 - t0 /\ dt < dt_est /\ dt > reldtmin

\* both stage loops of the current order are past their first statement
LoopADone == pc \in {"stage_b", "results", "decide"}

\* C20: within one attempt, stage loop A calls the right-hand side for no stage
\* for which an earlier order of the attempt has called it
C20_NewStagesOnly ==
  \A a \in h_evals : \A b \in h_evals : a[2] = b[2] => a[1] = b[1]

\* C20, amended: stage loop A of order m calls the right-hand side anew for
\* every stage 1..m-1, and only the call for stage 0 is made once per attempt
\* (and not at all when f0_ready held at its start)
C20_EveryStageAnew ==
  LoopADone
    => /\ {a \in h_evals : a[1] = idx_method}
            = {<<idx_method, st>> : st \in 1..(idx_method - 1)}
       /\ \A a \in h_evals : a[1] <= idx_method /\ a[2] >= 1
       /\ nmb_calls < MaxCalls
            => nmb_calls - h_calls
                 = Cardinality(h_evals) + (IF h_f0 THEN 0 ELSE 1)

C20_Witness ==
  /\ pc = "decide" /\ idx_method = 3
  /\ h_evals = {<<2, 1>>, <<3, 1>>, <<3, 2>>}
  /\ q_points[1] # q_points[2]

\* C21: the stage-0 evaluation is executed at an attempt exactly when the
\* attempt is the first one of solve or the first one after an acceptance,
\* never when it follows a rejection; so it has been executed exactly once
\* for the current sub-interval whenever an order is evaluated, a step is
\* rejected or a step is accepted
C21_StageZeroOncePerInterval ==
  /\ [][pc = "attempt" => (pc' = "stage0" <=> outcome \notin Rejections)]_vars
  /\ [](pc = "stage0" => h_zero = 0 /\ outcome \notin Rejections)
  /\ [](InOrderLoop \/ Accepting \/ JustRejected => h_zero = 1)
  /\ [](JustAccepted \/ pc = "returned" => h_zero = 0)

C21_Witness ==
  /\ pc = "addup" /\ h_zero = 1 /\ h_attempts >= 3 /\ h_f0
  /\ h_new2olds >= 1 /\ s_points[0] # One

C23_AcceptanceSequence ==
  /\ [][pc' \in {"addup", "advance", "new2old"} /\ pc' # pc
         => \/ /\ pc \in {"decide", "else"} /\ pc' = "addup"
               /\ ~f0_ready' /\ outcome' \notin Rejections
            \/ pc = "addup" /\ pc' = "advance"
            \/ pc = "advance" /\ pc' = "new2old"]_vars
  /\ [][pc = "addup"
         => /\ pc' = "advance" /\ q_sum' = q_sum + q
            /\ h_addups' = Tally(h_addups)
            /\ UNCHANGED <<numvars, states, h_advances, h_new2olds>>]_vars
  /\ [][pc = "advance"
         => /\ pc' = "new2old" /\ t0' = FloatAdd(t0, dt)
            /\ h_advances' = Tally(h_advances)
            /\ UNCHANGED <<states, fluxes, h_addups, h_new2olds>>]_vars
  /\ [][pc = "new2old"
         => /\ pc' = "while" /\ s_old' = s_new
            /\ h_new2olds' = Tally(h_new2olds)
            /\ UNCHANGED <<numvars, fluxes, h_addups, h_advances>>]_vars
  /\ [][InsideSolve(pc) /\ pc \notin {"addup", "advance", "new2old"}
         => UNCHANGED <<h_addups, h_advances, h_new2olds, t0, s_old, q_sum>>]_vars
  /\ [](h_addups < MaxCalls
         => /\ h_advances = h_addups - (IF pc = "advance" THEN 1 ELSE 0)
            /\ h_new2olds
                 = h_addups - (IF pc \in {"advance", "new2old"} THEN 1 ELSE 0))

C23_Witness ==
  /\ pc = "returned" /\ h_attempts >= 3
  /\ h_addups = 3 /\ h_advances = 3 /\ h_new2olds = 3
  /\ q_sum > 0 /\ s_old < One

\* C24: a step is rejected only with dt > reldtmin; the attempt that follows
\* a rejection works on the same sub-interval with
\* dt = max(rejected dt / dt_decrease, reldtmin), which is smaller than the
\* rejected dt, and starts the loop over the methods at order 1 again
C24_RejectionsShrink ==
  /\ [](JustRejected => dt > reldtmin)
  /\ [][pc = "attempt" /\ outcome \in Rejections
         => /\ dt' = Max(Quotient(dt, dt_decrease), reldtmin)
            /\ dt' < dt
            /\ t0' = t0
            /\ pc' = "for" /\ it_method' = 1]_vars
  /\ [][pc = "for" /\ h_orders = {} /\ nmb_methods >= 1
         => idx_method' = 1 /\ pc' = "stage_a"]_vars

C24_Witness ==
  /\ pc = "stage_a" /\ idx_method = 1 /\ h_orders = {}
  /\ outcome \in Rejections /\ h_f0 /\ h_attempts = MaxAttemptsCounted
  /\ t0 = 0 /\ dt = reldtmin /\ dt_est < reldtmin

\* C25: with abserrormax >= -999.9 the tests after the methods 1 and 2 never
\* reject the step (extrapolated_error is -999.9 then): an attempt that is
\* not accepted at order 2 goes on, and with nmb_methods >= 3 the next
\* method evaluated is order 3, whatever the error at order 2
C25_NoEarlyRejectionUpToTwo ==
  /\ [](pc = "decide" /\ idx_method <= 2
         => extrapolated_error = Num(NoExtrapolation))
  /\ [][pc = "decide" /\ idx_method <= 2 /\ abserrormax >= NoExtrapolation
         => /\ pc' \in {"for", "addup"}
            /\ UNCHANGED <<outcome, dt_est>> \/ outcome' = "accepted_tol"
            /\ (idx_method = 2 /\ error > abserrormax)
                 => pc' = "for" /\ last_error' = error
            /\ (idx_method = 2 /\ error > abserrormax /\ nmb_methods >= 3)
                 => it_method' = 3]_vars
  /\ [][pc = "for" /\ it_method = 3 /\ nmb_methods >= 3
         => pc' = "stage_a" /\ idx_method' = 3]_vars

C25_Witness ==
  /\ pc = "stage_a" /\ idx_method = 3 /\ h_orders = {1, 2}
  /\ abserrormax >= 0 /\ error > One \div 4 /\ last_error = error
  /\ dt > reldtmin

\* C26: when extrapolate_error is about to evaluate its formula inside solve
\* (idx_method > 2), order idx_method - 1 has been evaluated in the same
\* attempt, last_error is the error calculated then (the difference of the
\* results of the orders idx_method - 1 and idx_method - 2, which that
\* attempt has stored), it is above abserrormax, and it is not the 999999
\* assigned at the start of the attempt
C26_LastErrorFromPreviousOrder ==
  (pc = "results" /\ idx_method > 2)
    => /\ {idx_method - 2, idx_method - 1} \subseteq h_orders
       /\ last_error = Abs(q_results[idx_method - 1] - q_results[idx_method - 2])
       /\ last_error > abserrormax
       /\ last_error # LastErrorStart

C26_Witness ==
  /\ pc = "results" /\ idx_method = 3 /\ h_attempts >= 2
  /\ last_error > One \div 4 /\ abserrormax = One \div 4
  /\ q_results[3] # q_results[2]

\* C27: no step of solve resets or decreases nmb_calls; over a series of
\* calls of solve it is the value the instance was built with (0) plus the
\* number of calls of calculate_single_terms, so that after a second call
\* made without a reset it exceeds the count of the first call
C27_CallsAccumulate ==
  /\ [][nmb_calls' >= nmb_calls]_vars
  /\ [][pc = "idle" /\ pc' = "while" => nmb_calls' = nmb_calls]_vars
  /\ [](nmb_calls = h_single)
  /\ [](pc = "returned" /\ prev.runs > 0 /\ nmb_calls < MaxCalls
         => h_calls0 = prev.nmb_calls /\ nmb_calls > prev.nmb_calls)

C27_Witness ==
  /\ pc = "returned" /\ prev.runs = 1 /\ prev.nmb_calls >= 4
  /\ h_calls0 = prev.nmb_calls /\ nmb_calls >= h_calls0 + 4
  /\ nmb_calls = h_single /\ nmb_calls < MaxCalls

\* the last method the caller called is name, and it has returned
LastCalled(name) == called # <<>> /\ called[Len(called)] = name

\* the numvars before the last call, with the value v in position i
NumVarsBeforeExcept(i, v) == [h_before[1] EXCEPT ![i] = v]

RECURSIVE SumOf(_, _)
SumOf(f, S) ==
  IF S = {} THEN 0
  ELSE LET i == CHOOSE j \in S : TRUE IN f[i] + SumOf(f, S \ {i})

\* C29: integrate_fluxes assigns to the flux dt times the sum over
\* i < idx_method of a_coefs[idx_method-1][idx_stage][i] * points[i]; the
\* value does not depend on the entries of points from idx_method on, and
\* the points buffer (like everything but the flux) is left as it was
C29_FluxIsWeightedSum ==
  LastCalled("integrate_fluxes")
    => /\ q = (dt * SumOf([i \in 0..(idx_method - 1) |->
                             a_coefs[idx_method - 1][idx_stage][i]
                               * q_points[i]],
                          0..(idx_method - 1))) \div One
       /\ \A i \in idx_method..(NMB_STAGES - 1) : \A v \in {0, -999 * One} :
             IntegrateFluxes([q_points EXCEPT ![i] = v], idx_method,
                             idx_stage, dt) = q
       /\ fluxes = <<q, h_before[3][2], h_before[3][3], h_before[3][4]>>
       /\ numvars = h_before[1] /\ states = h_before[2]
       /\ a_coefs = LoadedCoefs

C29_Witness ==
  /\ LastCalled("integrate_fluxes")
  /\ idx_method = 2 /\ idx_stage = 1 /\ dt = TimeUnit \div 2
  /\ q_points[0] = 15 * One /\ q_points[1] = 2 * One
  /\ q_points[2] = -999 * One
  /\ q = (47 * One) \div 16

\* the states and the fluxes before the last call
StatesBefore == h_before[2]
FluxesBefore == h_before[3]

\* C30: set_point_states and set_point_fluxes assign the new state and the
\* flux to entry idx_stage of the points buffers, set_result_states and
\* set_result_fluxes to entry idx_method of the results buffers; the other
\* entries, the other buffers, the old and new state, the flux and the
\* numvars are as before the call
C30_SettersWriteOneEntry ==
  /\ LastCalled("set_point_states")
       => /\ states = [StatesBefore EXCEPT ![3] = [@ EXCEPT ![idx_stage] = s_new]]
          /\ fluxes = FluxesBefore /\ numvars = h_before[1]
  /\ LastCalled("set_result_states")
       => /\ states = [StatesBefore EXCEPT ![4] = [@ EXCEPT ![idx_method] = s_new]]
          /\ fluxes = FluxesBefore /\ numvars = h_before[1]
  /\ LastCalled("set_point_fluxes")
       => /\ fluxes = [FluxesBefore EXCEPT ![2] = [@ EXCEPT ![idx_stage] = q]]
          /\ states = StatesBefore /\ numvars = h_before[1]
  /\ LastCalled("set_result_fluxes")
       => /\ fluxes = [FluxesBefore EXCEPT ![3] = [@ EXCEPT ![idx_method] = q]]
          /\ states = StatesBefore /\ numvars = h_before[1]

C30_Witness ==
  /\ LastCalled("set_result_fluxes") /\ called[1] = "set_point_states"
  /\ idx_method = 2 /\ idx_stage = 1
  /\ q_results[2] = One /\ q_results[1] = 7 * One /\ q_points[1] = 7 * One
  /\ s_points[1] = One /\ s_points[2] = 7 * One

====
